---- MODULE Spec2Model ----
(***************************************************************************)
(* Model of the image metadata embedder (src/helpers/metadata-generator.js)*)
(* and of the /generate-seo/multiple route that drives it (src/index.js).  *)
(*                                                                         *)
(* File paths are sequences of one-character strings, so that the path     *)
(* operations (extname, basename, dirname, join, toLowerCase) are computed *)
(* character by character.  Metadata texts are TLA+ strings, joined with   *)
(* \o as Array.prototype.join does.                                        *)
(***************************************************************************)
EXTENDS Integers, Sequences, FiniteSets, TLC

(***************************************************************************)
(* Strings as character sequences.                                         *)
(***************************************************************************)
UpperChars == <<"A","B","C","D","E","F","G","H","I","J","K","L","M",
                "N","O","P","Q","R","S","T","U","V","W","X","Y","Z">>
LowerChars == <<"a","b","c","d","e","f","g","h","i","j","k","l","m",
                "n","o","p","q","r","s","t","u","v","w","x","y","z">>

\* String.prototype.toLowerCase, one character.
ToLowerChar(c) ==
    IF \E i \in 1..26 : UpperChars[i] = c
    THEN LowerChars[CHOOSE i \in 1..26 : UpperChars[i] = c]
    ELSE c

\* String.prototype.toLowerCase.
ToLowerCase(s) == [i \in 1..Len(s) |-> ToLowerChar(s[i])]

\* s.endsWith(suffix)
EndsWith(s, suffix) ==
    /\ Len(suffix) <= Len(s)
    /\ SubSeq(s, Len(s) - Len(suffix) + 1, Len(s)) = suffix

\* s with its trailing "/" characters removed.
RECURSIVE StripTrailingSlashes(_)
StripTrailingSlashes(s) ==
    IF Len(s) > 0 /\ s[Len(s)] = "/"
    THEN StripTrailingSlashes(SubSeq(s, 1, Len(s) - 1))
    ELSE s

\* Index of the last "/" of s, 0 when there is none.
LastSlash(s) ==
    IF \E i \in 1..Len(s) : s[i] = "/"
    THEN CHOOSE i \in 1..Len(s) :
            s[i] = "/" /\ \A j \in (i+1)..Len(s) : s[j] # "/"
    ELSE 0

\* The last portion of a path: what follows the last "/", trailing "/" ignored.
LastPortion(p) ==
    LET q == StripTrailingSlashes(p)
    IN  SubSeq(q, LastSlash(q) + 1, Len(q))

\* path.extname (posix): from the last "." of the last portion to its end;
\* empty when there is no ".", when the only "." is the first character of
\* the portion, or when the portion is "..".
Extname(p) ==
    LET b == LastPortion(p)
        dots == {i \in 1..Len(b) : b[i] = "."}
        d == CHOOSE i \in dots : \A j \in dots : j <= i
    IN  IF dots = {} THEN <<>>
        ELSE IF d = 1 THEN <<>>
        ELSE IF b = <<".", ".">> THEN <<>>
        ELSE SubSeq(b, d, Len(b))

\* path.basename(p, suffix) (posix): the last portion of p, with suffix
\* removed when the portion ends with it (compared character by character,
\* case-sensitively) and is not the suffix itself.
Basename(p, suffix) ==
    LET b == LastPortion(p)
    IN  IF Len(suffix) > 0 /\ Len(suffix) <= Len(p) /\ suffix = p THEN <<>>
        ELSE IF Len(suffix) > 0 /\ EndsWith(b, suffix) /\ b # suffix
             THEN SubSeq(b, 1, Len(b) - Len(suffix))
             ELSE b

\* path.dirname (posix).
Dirname(p) ==
    LET hasRoot == Len(p) > 0 /\ p[1] = "/"
        ends == {i \in 2..Len(p) :
                    p[i] = "/" /\ \E j \in (i+1)..Len(p) : p[j] # "/"}
        end == CHOOSE i \in ends : \A j \in ends : j <= i
    IN  IF Len(p) = 0 THEN <<".">>
        ELSE IF ends = {} THEN (IF hasRoot THEN <<"/">> ELSE <<".">>)
        ELSE SubSeq(p, 1, end - 1)

\* The "/"-separated segments of s, empty segments included.
RECURSIVE Split(_)
Split(s) ==
    IF \A i \in 1..Len(s) : s[i] # "/" THEN <<s>>
    ELSE LET k == CHOOSE i \in 1..Len(s) :
                      s[i] = "/" /\ \A j \in 1..(i-1) : s[j] # "/"
         IN  <<SubSeq(s, 1, k - 1)>> \o Split(SubSeq(s, k + 1, Len(s)))

\* normalizeString of path.normalize: resolves "." and ".." segments and
\* drops empty ones; `acc` is the stack of segments kept so far.
RECURSIVE NormalizeSegments(_, _, _)
NormalizeSegments(segs, acc, allowAboveRoot) ==
    IF segs = <<>> THEN acc
    ELSE LET s == Head(segs)
             rest == Tail(segs)
         IN  IF s = <<>> \/ s = <<".">>
             THEN NormalizeSegments(rest, acc, allowAboveRoot)
             ELSE IF s = <<".", ".">>
             THEN IF Len(acc) > 0 /\ acc[Len(acc)] # <<".", ".">>
                  THEN NormalizeSegments(rest, SubSeq(acc, 1, Len(acc) - 1),
                                         allowAboveRoot)
                  ELSE IF allowAboveRoot
                  THEN NormalizeSegments(rest, Append(acc, s), allowAboveRoot)
                  ELSE NormalizeSegments(rest, acc, allowAboveRoot)
             ELSE NormalizeSegments(rest, Append(acc, s), allowAboveRoot)

\* The segments joined with "/".
RECURSIVE Unsplit(_)
Unsplit(segs) ==
    IF segs = <<>> THEN <<>>
    ELSE IF Len(segs) = 1 THEN segs[1]
    ELSE segs[1] \o <<"/">> \o Unsplit(Tail(segs))

\* path.normalize (posix).
Normalize(p) ==
    IF Len(p) = 0 THEN <<".">>
    ELSE LET isAbsolute == p[1] = "/"
             trailing == p[Len(p)] = "/"
             body == Unsplit(NormalizeSegments(Split(p), <<>>, ~isAbsolute))
             rel == IF Len(body) = 0
                    THEN (IF isAbsolute THEN <<>>
                          ELSE IF trailing THEN <<".", "/">> ELSE <<".">>)
                    ELSE IF trailing THEN body \o <<"/">> ELSE body
         IN  IF isAbsolute THEN <<"/">> \o rel ELSE rel

\* path.join(a, b) (posix): the non-empty arguments joined with "/", normalized.
Join(a, b) ==
    LET joined == IF Len(a) = 0 THEN b
                  ELSE IF Len(b) = 0 THEN a
                  ELSE a \o <<"/">> \o b
    IN  IF Len(joined) = 0 THEN <<".">> ELSE Normalize(joined)

(***************************************************************************)
(* JavaScript values.                                                      *)
(***************************************************************************)
\* null or undefined
JsNull == [tag |-> "null"]
\* a string value
JsString(chars) == [tag |-> "string", chars |-> chars]
\* an array of strings
JsArray(items) == [tag |-> "array", items |-> items]
\* a metadata object {title, description, keywords}
JsMetadata(title, description, keywords) ==
    [tag |-> "object", title |-> title, description |-> description,
     keywords |-> keywords]

\* ToBoolean: null, undefined and the empty string are falsy.
Truthy(v) ==
    /\ v.tag # "null"
    /\ v.tag = "string" => Len(v.chars) > 0

\* Array.prototype.join(sep)
RECURSIVE ArrayJoin(_, _)
ArrayJoin(items, sep) ==
    IF items = <<>> THEN ""
    ELSE IF Len(items) = 1 THEN items[1]
    ELSE items[1] \o sep \o ArrayJoin(Tail(items), sep)

(***************************************************************************)
(* addImageMetadata and the format handlers.                               *)
(***************************************************************************)
\* The suffix inserted before the extension.
MetadataSuffix ==
    <<"_","w","i","t","h","_","m","e","t","a","d","a","t","a">>

\* The validation with the metadata test forgotten.
InputsMissing_PathOnly(imagePath, metadata) == ~Truthy(imagePath)

\* Line 18: the input validation condition.
InputsMissing(imagePath, metadata) == ~Truthy(imagePath) \/ ~Truthy(metadata)

\* The existence check left out.
AccessOk_Always(path, fs) == TRUE

\* Line 23: fs.access(imagePath) succeeds when the file exists.
AccessOk(path, fs) == Normalize(path) \in fs

\* Line 26: the lower-cased extension.
ExtOf(path) == ToLowerCase(Extname(path))

\* The output path with the suffix forgotten.
OutputPathOf_NoSuffix(path, ext) ==
    Join(Dirname(path), Basename(path, ext) \o ext)

\* Lines 27-30: the output path.
OutputPathOf(path, ext) ==
    Join(Dirname(path), Basename(path, ext) \o MetadataSuffix \o ext)

\* The switch with the .png and .webp cases exchanged.
HandlerFor_PngWebPSwapped(ext) ==
    IF ext = <<".","j","p","g">> \/ ext = <<".","j","p","e","g">>
    THEN "handleJpegMetadata"
    ELSE IF ext = <<".","p","n","g">> THEN "handleWebPMetadata"
    ELSE IF ext = <<".","w","e","b","p">> THEN "handlePngMetadata"
    ELSE IF ext = <<".","t","i","f","f">> THEN "handleTiffMetadata"
    ELSE "none"

\* Lines 33-49: the handler the switch selects, "none" for the default case.
HandlerFor(ext) ==
    IF ext = <<".","j","p","g">> \/ ext = <<".","j","p","e","g">>
    THEN "handleJpegMetadata"
    ELSE IF ext = <<".","p","n","g">> THEN "handlePngMetadata"
    ELSE IF ext = <<".","w","e","b","p">> THEN "handleWebPMetadata"
    ELSE IF ext = <<".","t","i","f","f">> THEN "handleTiffMetadata"
    ELSE "none"

\* Lines 69-88: the options handleJpegMetadata passes to withMetadata.
JpegOptions(m) ==
    [exif |-> [IFD0 |-> [ImageDescription |-> m.description,
                         XPTitle |-> m.title,
                         XPKeywords |-> ArrayJoin(m.keywords.items, ";")]],
     iptc |-> [ObjectName |-> m.title,
               Caption |-> m.description,
               Keywords |-> m.keywords.items]]

\* The PNG options with the keywords joined as the JPEG handler joins them.
PngOptions_Semicolon(m) ==
    [png |-> [text |-> [Title |-> m.title,
                        Description |-> m.description,
                        Keywords |-> ArrayJoin(m.keywords.items, ";")]]]

\* Lines 100-111: the options handlePngMetadata passes to withMetadata.
PngOptions(m) ==
    [png |-> [text |-> [Title |-> m.title,
                        Description |-> m.description,
                        Keywords |-> ArrayJoin(m.keywords.items, ", ")]]]

\* Lines 123-134: the options handleWebPMetadata passes to withMetadata.
WebPOptions(m) ==
    [webp |-> [xmp |-> [Title |-> m.title,
                        Description |-> m.description,
                        Keywords |-> ArrayJoin(m.keywords.items, ", ")]]]

\* Lines 146-155: the options handleTiffMetadata passes to withMetadata.
TiffOptions(m) ==
    [tiff |-> [ImageDescription |-> m.description,
               DocumentName |-> m.title,
               Keywords |-> ArrayJoin(m.keywords.items, ";")]]

\* The options the handler named h builds from metadata m.
OptionsFor(h, m) ==
    CASE h = "handleJpegMetadata" -> JpegOptions(m)
      [] h = "handlePngMetadata"  -> PngOptions(m)
      [] h = "handleWebPMetadata" -> WebPOptions(m)
      [] h = "handleTiffMetadata" -> TiffOptions(m)

\* metadata.keywords.join throws a TypeError when metadata is null or its
\* keywords is not an array.
HandlerThrows(m) == m.tag = "null" \/ m.keywords.tag # "array"

NoOptions == [none |-> TRUE]
NoResult == [status |-> "none", outputPath |-> <<>>, message |-> ""]
NoError == [name |-> "none", prefix |-> "", text |-> "", arg |-> <<>>]

\* An error before it is wrapped: its message is text followed by arg.
Thrown(text, arg) == [text |-> text, arg |-> arg]

\* Line 57: every error caught is re-thrown as a new Error whose message is
\* "Failed to add metadata: " followed by the caught error's message.
WrapError(e) ==
    [name |-> "Error", prefix |-> "Failed to add metadata: ",
     text |-> e.text, arg |-> e.arg]

\* Lines 51-55: the success result.
SuccessResult(outputPath) ==
    [status |-> "success", outputPath |-> outputPath,
     message |-> "Metadata added successfully"]

\* The failures sharp's toFile can report: the input cannot be read, the input
\* is no image it can decode, the output cannot be written.
InputMissing == "Input file is missing: "
InputUnsupported == "Input file contains unsupported image format"
OutputUnwritable == "unable to open for write: "

\* A call of addImageMetadata that has not run yet.
NewCall(imagePath, metadata) ==
    [imagePath |-> imagePath, metadata |-> metadata, pc |-> "start",
     ext |-> <<>>, outputPath |-> <<>>, handlers |-> <<>>,
     options |-> NoOptions, outcome |-> "pending", result |-> NoResult,
     error |-> NoError, thrownAt |-> "none"]

\* The call rejected with the wrapped error e, thrown at the place `at`.
Rejected(call, e, at) ==
    [call EXCEPT !.pc = "done", !.outcome = "error",
                 !.error = WrapError(e), !.thrownAt = at]

\* Lines 16-23: the synchronous part of a call, up to `await fs.access`.
Begun(call) ==
    IF InputsMissing(call.imagePath, call.metadata)
    THEN Rejected(call, Thrown("Image path and metadata are required", <<>>),
                  "validation")
    ELSE [call EXCEPT !.pc = "access"]

\* The file operations the synchronous part of call c issues.
BegunIo(call, c) ==
    IF InputsMissing(call.imagePath, call.metadata) THEN {}
    ELSE {[op |-> "access", path |-> call.imagePath.chars, by |-> c]}

\* Lines 23-49: the call resumed after fs.access, up to the handler's
\* `await ... toFile(outputPath)`.
Dispatched(call, fs) ==
    LET path == call.imagePath.chars
        ext == ExtOf(path)
        outputPath == OutputPathOf(path, ext)
        h == HandlerFor(ext)
        computed == [call EXCEPT !.ext = ext, !.outputPath = outputPath]
    IN  IF ~AccessOk(path, fs)
        THEN Rejected(call, Thrown("ENOENT: no such file or directory, access ",
                                   path), "access")
        ELSE IF h = "none"
        THEN Rejected(computed, Thrown("Unsupported image format: ", ext),
                      "dispatch")
        ELSE IF HandlerThrows(call.metadata)
        THEN Rejected([computed EXCEPT !.handlers = Append(@, h)],
                      Thrown("Cannot read properties of undefined (reading 'join')",
                             <<>>), "handler")
        ELSE [computed EXCEPT !.pc = "toFile",
                              !.handlers = Append(@, h),
                              !.options = OptionsFor(h, call.metadata)]

\* Lines 84-89 (and 106-112, 129-135, 152-156) then 51-55: toFile succeeded.
Written(call) ==
    [call EXCEPT !.pc = "done", !.outcome = "success",
                 !.result = SuccessResult(call.outputPath)]

\* The failures toFile can end with, given the files that exist.
ToFileFailures(call, fs) ==
    IF Normalize(call.imagePath.chars) \in fs
    THEN {Thrown(InputUnsupported, <<>>),
          Thrown(OutputUnwritable, call.outputPath)}
    ELSE {Thrown(InputMissing, call.imagePath.chars)}

(***************************************************************************)
(* State.                                                                  *)
(***************************************************************************)
VARIABLES
    calls,          \* the addImageMetadata calls, a sequence of call records
    files,          \* the (normalized) paths of the files that exist
    io,             \* the file operations issued: [op, path, by]
    rpc,            \* where the /generate-seo/multiple handler is
    reqFiles,       \* req.files: the paths of the uploaded files
    metadataArray,  \* the parsed reply of the AI service
    response        \* the HTTP status sent, 0 when none was

vars == <<calls, files, io, rpc, reqFiles, metadataArray, response>>
routeVars == <<rpc, reqFiles, metadataArray, response>>

(***************************************************************************)
(* Inputs.                                                                 *)
(***************************************************************************)
MaxKeywords == 2
MaxFiles == 2

Uploads == <<"u","p","l","o","a","d","s">>

Directories == {<<>>, Uploads \o <<"/">>, <<".","/">> \o Uploads \o <<"/">>}

FileNames ==
    { <<"a",".","j","p","g">>, <<"a",".","J","P","G">>,
      <<"a",".","J","P","G",".","j","p","g">>,
      <<"a",".","j","p","e","g">>, <<"a",".","p","n","g">>,
      <<"a",".","P","n","g">>, <<"a",".","w","e","b","p">>,
      <<"a",".","t","i","f","f">>, <<"a",".","b","m","p">>,
      <<"a",".","t","i","f">>, <<"a">>, <<".","j","p","g">>,
      <<"a",".">> }

ImagePaths == {d \o n : d \in Directories, n \in FileNames}

ImagePathValues == {JsNull, JsString(<<>>)} \cup {JsString(p) : p \in ImagePaths}

KeywordWords == {"beach", "sunset"}

KeywordLists == UNION {[1..n -> KeywordWords] : n \in 0..MaxKeywords}

MetadataObjects ==
    {JsMetadata("Sunset", "A beach at dusk", JsArray(k)) : k \in KeywordLists}
    \cup {JsMetadata("Sunset", "A beach at dusk", JsNull)}

MetadataValues == {JsNull} \cup MetadataObjects

(***************************************************************************)
(* One call of addImageMetadata.                                           *)
(***************************************************************************)
Init ==
    /\ \E p \in ImagePathValues, m \in MetadataValues :
          /\ calls = <<NewCall(p, m)>>
          /\ \E exists \in BOOLEAN :
                files = IF exists /\ p.tag = "string" /\ Len(p.chars) > 0
                        THEN {Normalize(p.chars)} ELSE {}
    /\ io = {}
    /\ rpc = "idle"
    /\ reqFiles = <<>>
    /\ metadataArray = <<>>
    /\ response = 0

\* Lines 16-23: the call runs up to `await fs.access(imagePath)`.
Begin(c) ==
    /\ calls[c].pc = "start"
    /\ calls' = [calls EXCEPT ![c] = Begun(@)]
    /\ io' = io \cup BegunIo(calls[c], c)
    /\ UNCHANGED <<files, routeVars>>

\* Lines 23-49: fs.access settles and the call runs up to the handler's
\* `await ... toFile(outputPath)`.
AccessDone(c) ==
    /\ calls[c].pc = "access"
    /\ calls' = [calls EXCEPT ![c] = Dispatched(@, files)]
    /\ UNCHANGED <<files, io, routeVars>>

\* toFile settles: the output file is written and the call returns the success
\* result, or toFile fails and the call throws.
ToFileDone(c) ==
    /\ calls[c].pc = "toFile"
    /\ \/ /\ Normalize(calls[c].imagePath.chars) \in files
          /\ calls' = [calls EXCEPT ![c] = Written(@)]
          /\ files' = files \cup {calls[c].outputPath}
          /\ io' = io \cup {[op |-> "read", path |-> calls[c].imagePath.chars,
                             by |-> c],
                            [op |-> "write", path |-> calls[c].outputPath,
                             by |-> c]}
       \/ /\ \E e \in ToFileFailures(calls[c], files) :
                /\ calls' = [calls EXCEPT ![c] = Rejected(@, e, "handler")]
                /\ io' = io \cup
                         {[op |-> "read", path |-> calls[c].imagePath.chars,
                           by |-> c]}
                         \cup (IF e.text = OutputUnwritable
                               THEN {[op |-> "write",
                                      path |-> calls[c].outputPath, by |-> c]}
                               ELSE {})
          /\ UNCHANGED files
    /\ UNCHANGED routeVars

Next ==
    \/ \E c \in DOMAIN calls : Begin(c)
    \/ \E c \in DOMAIN calls : AccessDone(c)
    \/ \E c \in DOMAIN calls : ToFileDone(c)

Spec == Init /\ [][Next]_vars

(***************************************************************************)
(* Two concurrent calls of addImageMetadata on existing files.             *)
(***************************************************************************)
PairMetadata == JsMetadata("Sunset", "A beach at dusk", JsArray(<<"beach">>))

PairInit ==
    /\ \E p \in ImagePaths, q \in ImagePaths :
          /\ calls = <<NewCall(JsString(p), PairMetadata),
                       NewCall(JsString(q), PairMetadata)>>
          /\ files = {Normalize(p), Normalize(q)}
    /\ io = {}
    /\ rpc = "idle"
    /\ reqFiles = <<>>
    /\ metadataArray = <<>>
    /\ response = 0

PairSpec == PairInit /\ [][Next]_vars

(***************************************************************************)
(* The /generate-seo/multiple route (src/index.js).                        *)
(***************************************************************************)
\* The names multer stores the uploads under (file.originalname).
UploadNames ==
    { <<"a",".","j","p","g">>, <<"b",".","p","n","g">>,
      <<"a",".","b","m","p">> }

\* file.path of an upload: the destination joined with the file name.
UploadPaths == {Join(Uploads, n) : n \in UploadNames}

\* The arrays the AI service's reply can parse to.
MetadataArrays == UNION {[1..n -> MetadataObjects] : n \in 0..MaxFiles}

\* metadataArray[index], undefined past the end of the array.
MetadataAt(arr, i) == IF i \in DOMAIN arr THEN arr[i] ELSE JsNull

RouteInit ==
    /\ reqFiles \in UNION {[1..n -> UploadPaths] : n \in 0..MaxFiles}
    /\ files = {reqFiles[i] : i \in DOMAIN reqFiles}
    /\ calls = <<>>
    /\ io = {}
    /\ rpc = "start"
    /\ metadataArray = <<>>
    /\ response = 0

\* Lines 151-157: the finally block unlinks every uploaded file.
CleanedFiles == files \ {Normalize(reqFiles[i]) : i \in DOMAIN reqFiles}
CleanupIo ==
    {[op |-> "unlink", path |-> reqFiles[i], by |-> 0] : i \in DOMAIN reqFiles}

\* Lines 78-91: no file uploaded answers 400 (and runs finally); otherwise the
\* uploads to the AI service start.
RouteBegin ==
    /\ rpc = "start"
    /\ IF Len(reqFiles) = 0
       THEN /\ response' = 400
            /\ rpc' = "done"
            /\ files' = CleanedFiles
            /\ io' = io \cup CleanupIo
       ELSE /\ rpc' = "uploading"
            /\ UNCHANGED <<response, files, io>>
    /\ UNCHANGED <<calls, reqFiles, metadataArray>>

\* The route fails before any image is processed: lines 148-157.
RouteFailed ==
    /\ response' = 500
    /\ rpc' = "done"
    /\ files' = CleanedFiles
    /\ io' = io \cup CleanupIo
    /\ UNCHANGED <<calls, reqFiles, metadataArray>>

\* Lines 89-127: the uploads settle; the chat message is sent or an upload
\* failed.
UploadDone ==
    /\ rpc = "uploading"
    /\ \/ /\ rpc' = "chat"
          /\ UNCHANGED <<calls, files, io, reqFiles, metadataArray, response>>
       \/ RouteFailed

\* Lines 127-145: the reply arrives and is parsed, and every image's
\* addImageMetadata call is started (each runs up to its first await); or the
\* chat or the parse failed.
ChatDone ==
    /\ rpc = "chat"
    /\ \/ \E arr \in MetadataArrays :
             LET started == [i \in DOMAIN reqFiles |->
                               NewCall(JsString(reqFiles[i]), MetadataAt(arr, i))]
             IN  /\ metadataArray' = arr
                 /\ calls' = [i \in DOMAIN reqFiles |-> Begun(started[i])]
                 /\ io' = io \cup UNION {BegunIo(started[i], i) :
                                            i \in DOMAIN reqFiles}
                 /\ rpc' = "processing"
                 /\ UNCHANGED <<files, reqFiles, response>>
       \/ RouteFailed

\* Promise.all of line 136 has settled: one call was rejected, or all were
\* fulfilled.
AnyRejected == \E c \in DOMAIN calls : calls[c].outcome = "error"
AllFulfilled == \A c \in DOMAIN calls : calls[c].outcome = "success"
Settled == rpc = "processing" /\ (AnyRejected \/ AllFulfilled)

\* Lines 136-157: Promise.all settles, the response is sent and the finally
\* block unlinks the uploads, all before any other callback runs.
ProcessingSettled ==
    /\ Settled
    /\ response' = IF AnyRejected THEN 500 ELSE 200
    /\ rpc' = "done"
    /\ files' = CleanedFiles
    /\ io' = io \cup CleanupIo
    /\ UNCHANGED <<calls, reqFiles, metadataArray>>

\* A call's continuation runs only once the pending promise reactions of the
\* route have run.
RouteAccessDone(c) == ~Settled /\ AccessDone(c)
RouteToFileDone(c) == ~Settled /\ ToFileDone(c)

RouteNext ==
    \/ RouteBegin
    \/ UploadDone
    \/ ChatDone
    \/ ProcessingSettled
    \/ \E c \in DOMAIN calls : RouteAccessDone(c)
    \/ \E c \in DOMAIN calls : RouteToFileDone(c)

RouteSpec == RouteInit /\ [][RouteNext]_vars

(***************************************************************************)
(* Properties.                                                             *)
(***************************************************************************)
Calls == DOMAIN calls

\* The file operations call c issued.
IoBy(c) == {e \in io : e.by = c}

\* The supported extensions, as the specification lists them.
SupportedExtensions ==
    { <<".","j","p","g">>, <<".","j","p","e","g">>, <<".","p","n","g">>,
      <<".","w","e","b","p">>, <<".","t","i","f","f">> }

\* Call c was given an image path and a metadata value.
InputsPresent(c) ==
    /\ calls[c].imagePath.tag = "string"
    /\ calls[c].imagePath.chars # <<>>
    /\ calls[c].metadata.tag = "object"

\* The extension of call c's path is a supported one, in any letter case.
HasSupportedExtension(c) ==
    ToLowerCase(Extname(calls[c].imagePath.chars)) \in SupportedExtensions

\* The output path the specification promises for path p:
\* <dir>/<basename>_with_metadata<ext>, ext being p's extension as written.
PromisedOutputPath(p) ==
    Join(Dirname(p), Basename(p, Extname(p)) \o MetadataSuffix \o Extname(p))

\* C1: for a path with a supported extension in any letter case, a successful
\* call returns <dir>/<basename>_with_metadata<ext>, basename being the file
\* name without its extension and ext the extension as written in the path.
C1_OutputPathKeepsNameAndExtension ==
    \A c \in Calls :
        (calls[c].outcome = "success" /\ HasSupportedExtension(c))
        => calls[c].result.outputPath
              = PromisedOutputPath(calls[c].imagePath.chars)

\* C2: with an unsupported extension the call fails with the
\* unsupported-format error, whether or not the file exists, without any file
\* operation and without invoking a handler.
C2_UnsupportedFailsBeforeAnyIo ==
    \A c \in Calls :
        (InputsPresent(c) /\ ~HasSupportedExtension(c))
        => /\ IoBy(c) = {}
           /\ calls[c].handlers = <<>>
           /\ calls[c].pc = "done"
                 => /\ calls[c].outcome = "error"
                    /\ calls[c].error.text = "Unsupported image format: "

\* C3: an error tells the caller whether it is an embedding failure: the
\* embedding-failure phrase is in the message of every error a handler raised
\* and of no validation, not-found or unsupported-format error.
C3_PhraseIdentifiesEmbeddingFailure ==
    \A c \in Calls :
        calls[c].outcome = "error"
        => (calls[c].error.prefix = "Failed to add metadata: "
               <=> calls[c].thrownAt = "handler")

\* C4: with metadata null or absent, or the path null, absent or empty, the
\* call fails with the validation error, for every extension and whether or
\* not the file exists, before any existence check, handler or write.
C4_MissingInputFailsValidationFirst ==
    \A c \in Calls :
        (~InputsPresent(c) /\ calls[c].pc # "start")
        => /\ calls[c].pc = "done"
           /\ calls[c].outcome = "error"
           /\ calls[c].thrownAt = "validation"
           /\ calls[c].error.text = "Image path and metadata are required"
           /\ calls[c].result = NoResult
           /\ calls[c].handlers = <<>>
           /\ IoBy(c) = {}

\* A call without metadata, on an existing file with a supported extension,
\* has failed.
C4_Witness ==
    \E c \in Calls :
        /\ calls[c].metadata = JsNull
        /\ calls[c].imagePath.tag = "string"
        /\ calls[c].imagePath.chars # <<>>
        /\ HasSupportedExtension(c)
        /\ Normalize(calls[c].imagePath.chars) \in files
        /\ calls[c].pc = "done"

\* C5: with both inputs present and no file at the path, the call fails with
\* the not-found error; no handler is invoked, nothing is written and no
\* success result is returned.
C5_MissingFileFailsNotFound ==
    \A c \in Calls :
        (/\ InputsPresent(c)
         /\ Normalize(calls[c].imagePath.chars) \notin files
         /\ calls[c].pc \notin {"start", "access"})
        => /\ calls[c].pc = "done"
           /\ calls[c].outcome = "error"
           /\ calls[c].thrownAt = "access"
           /\ calls[c].error.text = "ENOENT: no such file or directory, access "
           /\ calls[c].error.arg = calls[c].imagePath.chars
           /\ calls[c].handlers = <<>>
           /\ calls[c].result = NoResult
           /\ \A e \in IoBy(c) : e.op = "access"

\* A call with metadata and a supported extension, on a file that does not
\* exist, has failed.
C5_Witness ==
    \E c \in Calls :
        /\ InputsPresent(c)
        /\ calls[c].metadata.keywords.tag = "array"
        /\ HasSupportedExtension(c)
        /\ Normalize(calls[c].imagePath.chars) \notin files
        /\ calls[c].pc = "done"

\* The call has computed its output path (line 27 was reached).
OutputPathComputed(c) ==
    \/ calls[c].pc = "toFile"
    \/ calls[c].outcome = "success"
    \/ calls[c].thrownAt \in {"dispatch", "handler"}

\* C6: in every outcome the embedder neither writes nor deletes the source
\* file: it deletes nothing, the only path it writes is outputPath, and
\* outputPath is never the source path.
C6_SourceNeverWritten ==
    \A c \in Calls :
        /\ \A e \in IoBy(c) :
              /\ e.op \in {"access", "read", "write"}
              /\ e.op = "write"
                    => /\ e.path = calls[c].outputPath
                       /\ e.path # calls[c].imagePath.chars
                       /\ Normalize(e.path)
                             # Normalize(calls[c].imagePath.chars)
        /\ OutputPathComputed(c)
              => /\ calls[c].outputPath # calls[c].imagePath.chars
                 /\ Normalize(calls[c].outputPath)
                       # Normalize(calls[c].imagePath.chars)
                 /\ Normalize(calls[c].imagePath.chars) \in files

\* A call has written its output file.
C6_Witness ==
    \E c \in Calls :
        /\ calls[c].outcome = "success"
        /\ [op |-> "write", path |-> calls[c].outputPath, by |-> c] \in io
        /\ calls[c].outputPath \in files

\* The first n items joined with sep, built from the left.
RECURSIVE JoinedUpTo(_, _, _)
JoinedUpTo(items, sep, n) ==
    IF n = 0 THEN ""
    ELSE IF n = 1 THEN items[1]
    ELSE JoinedUpTo(items, sep, n - 1) \o sep \o items[n]

Joined(items, sep) == JoinedUpTo(items, sep, Len(items))

SunsetMetadata ==
    JsMetadata("Sunset", "A beach at dusk", JsArray(<<"beach", "sunset">>))

\* C7: the metadata block each handler builds from a metadata value with a
\* keywords sequence.  JPEG: EXIF ImageDescription, XPTitle, XPKeywords
\* (joined with ";") and IPTC ObjectName, Caption, Keywords (the list).
\* TIFF: DocumentName, ImageDescription, Keywords (joined with ";").  PNG text
\* chunks and WebP XMP: Title, Description, Keywords (joined with ", ").  The
\* Sunset example on a .png gives Title=Sunset, Description=A beach at dusk,
\* Keywords=beach, sunset.
C7_MetadataBlockPerFormat ==
    \A c \in Calls :
        (calls[c].handlers # <<>> /\ calls[c].metadata.keywords.tag = "array")
        => LET h == calls[c].handlers[1]
               m == calls[c].metadata
               k == m.keywords.items
               o == calls[c].options
           IN  /\ h = "handleJpegMetadata" =>
                     /\ DOMAIN o = {"exif", "iptc"}
                     /\ o.exif.IFD0.ImageDescription = m.description
                     /\ o.exif.IFD0.XPTitle = m.title
                     /\ o.exif.IFD0.XPKeywords = Joined(k, ";")
                     /\ o.iptc.ObjectName = m.title
                     /\ o.iptc.Caption = m.description
                     /\ o.iptc.Keywords = k
               /\ h = "handleTiffMetadata" =>
                     /\ DOMAIN o = {"tiff"}
                     /\ o.tiff.DocumentName = m.title
                     /\ o.tiff.ImageDescription = m.description
                     /\ o.tiff.Keywords = Joined(k, ";")
               /\ h = "handlePngMetadata" =>
                     /\ DOMAIN o = {"png"}
                     /\ DOMAIN o.png = {"text"}
                     /\ o.png.text.Title = m.title
                     /\ o.png.text.Description = m.description
                     /\ o.png.text.Keywords = Joined(k, ", ")
               /\ h = "handleWebPMetadata" =>
                     /\ DOMAIN o = {"webp"}
                     /\ DOMAIN o.webp = {"xmp"}
                     /\ o.webp.xmp.Title = m.title
                     /\ o.webp.xmp.Description = m.description
                     /\ o.webp.xmp.Keywords = Joined(k, ", ")
               /\ (m = SunsetMetadata
                   /\ Extname(calls[c].imagePath.chars) = <<".","p","n","g">>)
                  => o = [png |-> [text |-> [Title |-> "Sunset",
                                             Description |-> "A beach at dusk",
                                             Keywords |-> "beach, sunset"]]]

\* The Sunset example was embedded into a .png.
C7_Witness ==
    \E c \in Calls :
        /\ calls[c].outcome = "success"
        /\ calls[c].metadata = SunsetMetadata
        /\ Extname(calls[c].imagePath.chars) = <<".","p","n","g">>

\* C8: two concurrent calls on distinct source files never write the same
\* output file.
C8_DistinctSourcesDistinctOutputs ==
    \A c \in Calls, d \in Calls :
        (/\ c # d
         /\ Normalize(calls[c].imagePath.chars)
               # Normalize(calls[d].imagePath.chars)
         /\ calls[c].outcome = "success"
         /\ calls[d].outcome = "success")
        => calls[c].result.outputPath # calls[d].result.outputPath

\* The handler the specification assigns to a lower-cased extension.
PromisedHandler(ext) ==
    CASE ext = <<".","j","p","g">> -> "handleJpegMetadata"
      [] ext = <<".","j","p","e","g">> -> "handleJpegMetadata"
      [] ext = <<".","p","n","g">> -> "handlePngMetadata"
      [] ext = <<".","w","e","b","p">> -> "handleWebPMetadata"
      [] ext = <<".","t","i","f","f">> -> "handleTiffMetadata"
      [] OTHER -> "none"

\* C9: a call ends in exactly one of a success result and a raised error; it
\* succeeds only after exactly one handler, the one of the lower-cased
\* extension, has written outputPath; a handler is invoked at most once and a
\* handler failure never yields a success result; a call that has not ended
\* is at a step that can be taken.
C9_OneOutcomeOneHandler ==
    \A c \in Calls :
        /\ calls[c].pc = "done" <=> calls[c].outcome \in {"success", "error"}
        /\ calls[c].outcome = "success" =>
              /\ calls[c].error = NoError
              /\ calls[c].thrownAt = "none"
              /\ calls[c].result
                    = [status |-> "success",
                       outputPath |-> calls[c].outputPath,
                       message |-> "Metadata added successfully"]
              /\ calls[c].handlers
                    = <<PromisedHandler(
                          ToLowerCase(Extname(calls[c].imagePath.chars)))>>
              /\ calls[c].handlers[1] # "none"
              /\ [op |-> "write", path |-> calls[c].outputPath, by |-> c]
                    \in io
              /\ calls[c].outputPath \in files
        /\ calls[c].outcome = "error" =>
              /\ calls[c].result = NoResult
              /\ calls[c].error.name = "Error"
              /\ calls[c].thrownAt # "none"
        /\ calls[c].outcome = "pending" =>
              /\ calls[c].result = NoResult
              /\ calls[c].error = NoError
        /\ Len(calls[c].handlers) <= 1
        /\ calls[c].pc \in {"start", "access", "toFile", "done"}
        /\ calls[c].pc = "toFile" => ToFileFailures(calls[c], files) # {}

\* A call on a .png file has succeeded through the PNG handler.
C9_Witness ==
    \E c \in Calls :
        /\ calls[c].outcome = "success"
        /\ Extname(calls[c].imagePath.chars) = <<".","p","n","g">>
        /\ calls[c].handlers = <<"handlePngMetadata">>

\* C10: the cleanup of the uploads runs only once every addImageMetadata call
\* of the request has finished.
C10_CleanupAfterAllCallsFinished ==
    [][(rpc = "processing" /\ rpc' = "done")
          => \A c \in Calls : calls[c].pc = "done"]_vars

====
